---- MODULE Spec2Model ----
(***************************************************************************)
(* Model of src/wallet_integration.py: the four response formatters, the   *)
(* nested truncate_value helper and the run_example_implementation driver. *)
(*                                                                         *)
(* Python values are tagged records [t, v]:                                *)
(*   t = "none"  v = 0                      None / JSON null               *)
(*   t = "num"   v = integer                an int; an APY or a balance    *)
(*                                          given as a number is in 1/10000*)
(*   t = "str"   v = sequence of characters a str                          *)
(*   t = "list"  v = sequence of values     a list                         *)
(*   t = "dict"  v = sequence of <<key, value>> pairs in insertion order,  *)
(*               key a sequence of characters                              *)
(* A formatter result is [kind |-> "msg" | "table" | "raise", ...].        *)
(***************************************************************************)
EXTENDS Integers, Sequences, FiniteSets, TLC

\* ------------------------------------------------------------------ bounds
MaxStrLen == 64      \* longest string handed to the truncation helpers
MaxLenBound == 61    \* largest max_length tried (the code passes 50 and 60)
MaxDots == 3         \* trailing '.' characters of a generated string
MaxOptions == 3      \* deposit options of one balance entry
MaxEntries == 2      \* entries of a balance, position or deposit-option list
MaxActions == 3      \* actions of a transaction blob

\* --------------------------------------------------------- python values
None == [t |-> "none", v |-> 0]
Num(n) == [t |-> "num", v |-> n]
Str(s) == [t |-> "str", v |-> s]
List(s) == [t |-> "list", v |-> s]
Dict(s) == [t |-> "dict", v |-> s]

Ellipsis == <<".", ".", ".">>

\* value[:n]
Slice(s, n) == SubSeq(s, 1, IF n < Len(s) THEN n ELSE Len(s))

\* a string of i 'x' characters followed by j '.' characters
Rep(i, j) == [k \in 1..(i + j) |-> IF k <= i THEN "x" ELSE "."]

k_data == <<"d", "a", "t", "a">>
k_name == <<"n", "a", "m", "e">>
k_to == <<"t", "o">>
k_action == <<"a", "c", "t", "i", "o", "n">>

\* off-by-one slice: one character more than the limit is kept
truncate_value_off_by_one(key, value, max_length) ==
    IF key = k_data /\ Len(value) > 20 THEN Slice(value, 20) \o Ellipsis
    ELSE IF Len(value) > max_length THEN Slice(value, max_length + 1) \o Ellipsis
    ELSE value

\* truncate_value(key, value, max_length=50), lines 29-35
truncate_value(key, value, max_length) ==
    IF key = k_data /\ Len(value) > 20 THEN Slice(value, 20) \o Ellipsis
    ELSE IF Len(value) > max_length THEN Slice(value, max_length) \o Ellipsis
    ELSE value

\* vault_name[:limit] + '...' if len(vault_name) > limit else vault_name
vault_name_short(vault_name, limit) ==
    IF Len(vault_name) > limit THEN Slice(vault_name, limit) \o Ellipsis ELSE vault_name

\* ------------------------------------------------------ python semantics
NA == Str(<<"N", "/", "A">>)
EmptyDict == Dict(<<>>)

\* bool(x)
Truthy(x) ==
    CASE x.t = "none" -> FALSE
      [] x.t = "num" -> x.v # 0
      [] OTHER -> Len(x.v) > 0

\* key in d, for a dict d
HasKey(d, key) == \E i \in 1..Len(d.v) : d.v[i][1] = key

\* d.get(key, default), for a dict d
Get(d, key, default) ==
    IF HasKey(d, key)
    THEN d.v[CHOOSE i \in 1..Len(d.v) : d.v[i][1] = key][2]
    ELSE default

\* d.get(key, {}).get(...) raises AttributeError unless d[key] is a mapping
SubRaises(d, key) == HasKey(d, key) /\ Get(d, key, EmptyDict).t # "dict"

\* d.get(key, {}).get(key2, default)
SubGet(d, key, key2, default) == Get(Get(d, key, EmptyDict), key2, default)

\* d.get(key, {}).get(key2)
SubGetNone(d, key, key2) == SubGet(d, key, key2, None)

\* `for e in x` raises TypeError unless x is a list, a mapping or a str
Iterable(x) == x.t \in {"list", "dict", "str"}

\* the elements `for e in x` yields: list items, mapping keys, characters
Iter(x) ==
    CASE x.t = "list" -> x.v
      [] x.t = "dict" -> [i \in 1..Len(x.v) |-> Str(x.v[i][1])]
      [] x.t = "str" -> [i \in 1..Len(x.v) |-> Str(<<x.v[i]>>)]
      [] OTHER -> <<>>

\* len(x) raises TypeError for None and numbers
HasLen(x) == x.t \in {"list", "dict", "str"}

Digit == <<"0", "1", "2", "3", "4", "5", "6", "7", "8", "9">>
IsDigit(c) == \E i \in 1..10 : Digit[i] = c
DigitVal(c) == (CHOOSE i \in 1..10 : Digit[i] = c) - 1

RECURSIVE IntToStr(_)
\* str(n) for an int n >= 0
IntToStr(n) == IF n < 10 THEN <<Digit[n + 1]>> ELSE IntToStr(n \div 10) \o <<Digit[(n % 10) + 1]>>

RECURSIVE Pow10(_)
Pow10(d) == IF d = 0 THEN 1 ELSE 10 * Pow10(d - 1)

RECURSIVE DigitsVal(_)
DigitsVal(s) == IF Len(s) = 0 THEN 0 ELSE 10 * DigitsVal(SubSeq(s, 1, Len(s) - 1)) + DigitVal(s[Len(s)])

AllDigits(s) == \A i \in 1..Len(s) : IsDigit(s[i])
DotAt(s) == IF \E i \in 1..Len(s) : s[i] = "." THEN CHOOSE i \in 1..Len(s) : s[i] = "." ELSE 0

\* float(s) of a str accepts here digits with at most one '.' and at most 6
\* decimals; anything else is a ValueError
FloatParses(s) ==
    LET d == DotAt(s) IN
    IF d = 0 THEN Len(s) > 0 /\ AllDigits(s)
    ELSE /\ Len(s) > 1
         /\ AllDigits(SubSeq(s, 1, d - 1)) /\ AllDigits(SubSeq(s, d + 1, Len(s)))
         /\ Len(s) - d <= 6

\* float(s) in millionths
FloatOfStr(s) ==
    LET d == DotAt(s) IN
    IF d = 0 THEN DigitsVal(s) * 1000000
    ELSE DigitsVal(SubSeq(s, 1, d - 1)) * 1000000
         + DigitsVal(SubSeq(s, d + 1, Len(s))) * Pow10(6 - (Len(s) - d))

\* float(x) raises for a non-numeric str (ValueError) and for None, lists and
\* mappings (TypeError)
FloatRaises(x) ==
    CASE x.t = "num" -> FALSE
      [] x.t = "str" -> ~FloatParses(x.v)
      [] OTHER -> TRUE

\* float(x) in millionths; a num holds 1/10000 units
FloatOf(x) == IF x.t = "num" THEN x.v * 100 ELSE FloatOfStr(x.v)

RECURSIVE ZeroPad(_, _)
ZeroPad(s, d) == IF Len(s) >= d THEN s ELSE ZeroPad(<<"0">> \o s, d)

\* f"{x:.df}" (d <= 6) of a value x >= 0 given in millionths
FormatFixed(micro, d) ==
    LET q == IF d >= 6 THEN micro ELSE (micro + 5 * Pow10(5 - d)) \div Pow10(6 - d) IN
    IntToStr(q \div Pow10(d)) \o <<".">> \o ZeroPad(IntToStr(q % Pow10(d)), d)

\* f"${float(balance_usd):.2f}" if balance_usd else 'N/A'
UsdRaises(balance_usd) == Truthy(balance_usd) /\ FloatRaises(balance_usd)
balance_usd_formatted(balance_usd) ==
    IF Truthy(balance_usd) THEN Str(<<"$">> \o FormatFixed(FloatOf(balance_usd), 2)) ELSE NA

\* f"{apy * 100:.2f}%" if apy else 'N/A'; only a number takes the 'f' format
ApyRaises(apy) == Truthy(apy) /\ apy.t # "num"
apy_formatted(apy) ==
    IF Truthy(apy) THEN Str(FormatFixed(apy.v * 100 * 100, 2) \o <<"%">>) ELSE NA

\* str(x) of a str, None or a non-negative int
StrOf(x) ==
    CASE x.t = "str" -> x.v
      [] x.t = "none" -> <<"N", "o", "n", "e">>
      [] x.t = "num" -> IntToStr(x.v)
      [] OTHER -> <<"?">>

\* f"{float(balance_native):.6f} {symbol}" if balance_native else 'N/A'
balance_formatted(balance_native, symbol) ==
    IF Truthy(balance_native)
    THEN Str(FormatFixed(FloatOf(balance_native), 6) \o <<" ">> \o StrOf(symbol))
    ELSE NA

\* --------------------------------------------------------------- results
Msg(m) == [kind |-> "msg", msg |-> m, headers |-> <<>>, rows |-> <<>>]
Table(h, r) == [kind |-> "table", msg |-> "", headers |-> h, rows |-> r]
Raised == [kind |-> "raise", msg |-> "", headers |-> <<>>, rows |-> <<>>]

k_symbol == <<"s", "y", "m", "b", "o", "l">>
k_balanceNative == <<"b", "a", "l", "a", "n", "c", "e", "N", "a", "t", "i", "v", "e">>
k_balanceUsd == <<"b", "a", "l", "a", "n", "c", "e", "U", "s", "d">>
k_network == <<"n", "e", "t", "w", "o", "r", "k">>
k_protocol == <<"p", "r", "o", "t", "o", "c", "o", "l">>
k_asset == <<"a", "s", "s", "e", "t">>
k_apy == <<"a", "p", "y">>
k_total == <<"t", "o", "t", "a", "l">>
k_dataKey == k_data
k_address == <<"a", "d", "d", "r", "e", "s", "s">>
k_userBalances == <<"u", "s", "e", "r", "B", "a", "l", "a", "n", "c", "e", "s">>
k_depositOptions == <<"d", "e", "p", "o", "s", "i", "t", "O", "p", "t", "i", "o", "n", "s">>
k_actions == <<"a", "c", "t", "i", "o", "n", "s">>
k_tx == <<"t", "x">>
UnknownVault == Str(<<"U", "n", "k", "n", "o", "w", "n", " ", "V", "a", "u", "l", "t">>)

\* ------------------------------------------------- format_user_balances
\* one loop iteration of format_user_balances raises (lines 165-173)
BalanceRowRaises(asset) ==
    \/ asset.t # "dict"
    \/ UsdRaises(Get(asset, k_balanceNative, None))
    \/ UsdRaises(Get(asset, k_balanceUsd, None))
    \/ SubRaises(asset, k_network)

\* the row one loop iteration appends (lines 165-180)
BalanceRow(asset) ==
    LET symbol == Get(asset, k_symbol, NA) IN
    << symbol,
       balance_formatted(Get(asset, k_balanceNative, None), symbol),
       balance_usd_formatted(Get(asset, k_balanceUsd, None)),
       SubGet(asset, k_network, k_name, NA) >>

\* the guard of lines 155 and 117 raises AttributeError on a truthy payload
\* that has no .get
DataGuardRaises(payload) == Truthy(payload) /\ payload.t # "dict"

\* not p or not p.get('data') or not isinstance(p.get('data'), list)
DataGuard(payload) ==
    \/ ~Truthy(payload)
    \/ ~Truthy(Get(payload, k_dataKey, None))
    \/ Get(payload, k_dataKey, None).t # "list"

\* format_user_balances, lines 153-182
format_user_balances(idle_assets) ==
    IF DataGuardRaises(idle_assets) THEN Raised
    ELSE IF DataGuard(idle_assets) THEN Msg("No idle assets available")
    ELSE LET data == Get(idle_assets, k_dataKey, None).v IN
         IF \E i \in 1..Len(data) : BalanceRowRaises(data[i]) THEN Raised
         ELSE IF Len(data) > 0   \* has_balances
              THEN Table(<<"Asset", "Balance", "Balance USD", "Network">>,
                         [i \in 1..Len(data) |-> BalanceRow(data[i])])
              ELSE Msg("No idle assets found")

\* ----------------------------------------------------- format_positions
\* len(vault_name) and vault_name[:n] + '...' need a str
NameRaises(vault_name) == vault_name.t # "str"

\* one loop iteration of format_positions raises (lines 127-139)
PositionRowRaises(position) ==
    \/ position.t # "dict"
    \/ SubRaises(position, k_network)
    \/ SubRaises(position, k_protocol)
    \/ NameRaises(Get(position, k_name, UnknownVault))
    \/ SubRaises(position, k_asset)
    \/ UsdRaises(SubGetNone(position, k_asset, k_balanceUsd))
    \/ SubRaises(position, k_apy)
    \/ ApyRaises(SubGetNone(position, k_apy, k_total))

\* the row one loop iteration appends (lines 127-148)
PositionRow(position) ==
    << SubGet(position, k_network, k_name, NA),
       SubGet(position, k_protocol, k_name, NA),
       Str(vault_name_short(Get(position, k_name, UnknownVault).v, 16)),
       SubGet(position, k_asset, k_symbol, NA),
       balance_usd_formatted(SubGetNone(position, k_asset, k_balanceUsd)),
       apy_formatted(SubGetNone(position, k_apy, k_total)) >>

\* format_positions, lines 115-150
format_positions(positions) ==
    IF DataGuardRaises(positions) THEN Raised
    ELSE IF DataGuard(positions) THEN Msg("No positions available")
    ELSE LET data == Get(positions, k_dataKey, None).v IN
         IF \E i \in 1..Len(data) : PositionRowRaises(data[i]) THEN Raised
         ELSE IF Len(data) > 0   \* has_positions
              THEN Table(<<"Network", "Protocol", "Vault Name", "Asset", "Balance USD", "APY">>,
                         [i \in 1..Len(data) |-> PositionRow(data[i])])
              ELSE Msg("No active positions found")

\* ----------------------------------------------- format_deposit_options
\* the body of the inner loop raises (lines 89-101)
OptionRowRaises(balance, option) ==
    \/ SubRaises(balance, k_asset)
    \/ UsdRaises(SubGetNone(balance, k_asset, k_balanceUsd))
    \/ option.t # "dict"
    \/ SubRaises(option, k_network)
    \/ NameRaises(Get(option, k_name, NA))
    \/ SubRaises(option, k_protocol)
    \/ SubRaises(option, k_apy)
    \/ ApyRaises(SubGetNone(option, k_apy, k_total))

\* the row the inner loop appends (lines 89-110)
OptionRow(balance, option) ==
    << SubGet(balance, k_asset, k_symbol, NA),
       balance_usd_formatted(SubGetNone(balance, k_asset, k_balanceUsd)),
       SubGet(option, k_network, k_name, NA),
       Str(vault_name_short(Get(option, k_name, NA).v, 18)),
       SubGet(option, k_protocol, k_name, NA),
       apy_formatted(SubGetNone(option, k_apy, k_total)) >>

\* balance.get('depositOptions', [])
DepositOptionsOf(balance) == Get(balance, k_depositOptions, List(<<>>))

\* one iteration of the outer loop raises (line 88 and the inner loop)
BalanceEntryRaises(balance) ==
    \/ balance.t # "dict"
    \/ ~Iterable(DepositOptionsOf(balance))
    \/ \E j \in 1..Len(Iter(DepositOptionsOf(balance))) :
          OptionRowRaises(balance, Iter(DepositOptionsOf(balance))[j])

\* the rows one iteration of the outer loop appends
BalanceEntryRows(balance) ==
    LET options == Iter(DepositOptionsOf(balance)) IN
    [j \in 1..Len(options) |-> OptionRow(balance, options[j])]

RECURSIVE DepositRows(_, _)
\* table_data after the outer loop has run over entries i..
DepositRows(entries, i) ==
    IF i > Len(entries) THEN <<>>
    ELSE BalanceEntryRows(entries[i]) \o DepositRows(entries, i + 1)

\* format_deposit_options, lines 79-112
format_deposit_options(deposit_options_response) ==
    IF Truthy(deposit_options_response) /\ deposit_options_response.t # "dict" THEN Raised
    ELSE IF \/ ~Truthy(deposit_options_response)
            \/ ~Truthy(Get(deposit_options_response, k_userBalances, None))
    THEN Msg("No deposit options available")
    ELSE LET userBalances == Get(deposit_options_response, k_userBalances, List(<<>>)) IN
         IF ~Iterable(userBalances) THEN Raised
         ELSE IF \E i \in 1..Len(Iter(userBalances)) : BalanceEntryRaises(Iter(userBalances)[i])
         THEN Raised
         ELSE Table(<<"Asset", "Balance USD", "Network", "Vault Name", "Protocol", "APY">>,
                    DepositRows(Iter(userBalances), 1))

\* ---------------------------------------------- format_transaction_blob
BlankRow == <<Str(<<>>), Str(<<>>)>>
TotalActionsLabel == Str(<<"T", "o", "t", "a", "l", " ", "A", "c", "t", "i", "o", "n", "s">>)

\* f'Action {i}'
ActionLabel(i) == Str(<<"A", "c", "t", "i", "o", "n", " ">> \o IntToStr(i))

\* the row of one top-level property (lines 44-48)
PropertyRow(key, value) ==
    IF value = None \/ value = Str(<<>>) THEN <<Str(key), NA>>
    ELSE <<Str(key), Str(truncate_value(key, StrOf(value), 50))>>

RECURSIVE PropertyRows(_, _)
\* the rows of the first loop (lines 41-48): every item but 'actions'
PropertyRows(items, i) ==
    IF i > Len(items) THEN <<>>
    ELSE (IF items[i][1] = k_actions THEN <<>> ELSE <<PropertyRow(items[i][1], items[i][2])>>)
         \o PropertyRows(items, i + 1)

\* handling a mapping action raises (lines 59-66): len() of a name that is
\* not a str, .items() of a tx that is not a mapping
ActionRaises(action, i) ==
    /\ action.t = "dict"
    /\ \/ Get(action, k_name, ActionLabel(i)).t # "str"
       \/ Get(action, k_tx, EmptyDict).t # "dict"

\* the rows appended for the action displayed as 'Action i' of n (lines 57-74)
ActionRows(action, i, n) ==
    IF action.t = "dict"
    THEN LET tx_details == Get(action, k_tx, EmptyDict).v IN
         <<<<ActionLabel(i), Str(truncate_value(k_name, Get(action, k_name, ActionLabel(i)).v, 60))>>>>
         \o [j \in 1..Len(tx_details) |->
               <<Str(<<" ", " ">> \o tx_details[j][1]),
                 Str(truncate_value(tx_details[j][1], StrOf(tx_details[j][2]), 50))>>]
         \o (IF i < n THEN <<BlankRow>> ELSE <<>>)
    ELSE <<<<ActionLabel(i), Str(truncate_value(k_action, StrOf(action), 50))>>>>

RECURSIVE ActionsRows(_, _)
\* the rows of the loop over the actions i.. (lines 56-74)
ActionsRows(actions, i) ==
    IF i > Len(actions) THEN <<>>
    ELSE ActionRows(actions[i], i, Len(actions)) \o ActionsRows(actions, i + 1)

\* 'actions' in transaction and isinstance(transaction['actions'], list)
HasActionsList(transaction) ==
    HasKey(transaction, k_actions) /\ Get(transaction, k_actions, None).t = "list"

\* the rows of the actions section (lines 51-74)
ActionsSection(transaction) ==
    IF HasActionsList(transaction)
    THEN LET actions == Get(transaction, k_actions, None).v IN
         <<BlankRow, <<TotalActionsLabel, Str(IntToStr(Len(actions)))>>, BlankRow>>
         \o ActionsRows(actions, 1)
    ELSE <<>>

\* format_transaction_blob, lines 24-76
format_transaction_blob(transaction) ==
    IF ~Truthy(transaction) \/ transaction.t # "dict"
    THEN Msg("No transaction data available")
    ELSE IF /\ HasActionsList(transaction)
            /\ \E i \in 1..Len(Get(transaction, k_actions, None).v) :
                  ActionRaises(Get(transaction, k_actions, None).v[i], i)
    THEN Raised
    ELSE Table(<<"Property", "Value">>,
               PropertyRows(transaction.v, 1) \o ActionsSection(transaction))

\* ------------------------------------------------------- payload shapes
\* d with the value of key replaced / with key removed
With(d, key, val) == Dict([i \in 1..Len(d.v) |-> IF d.v[i][1] = key THEN <<key, val>> ELSE d.v[i]])
Without(d, key) == Dict(SelectSeq(d.v, LAMBDA p : p[1] # key))
Named(s) == Dict(<< <<k_name, Str(s)>> >>)

s_base == <<"b", "a", "s", "e">>
s_mainnet == <<"m", "a", "i", "n", "n", "e", "t">>
s_aave == <<"a", "a", "v", "e">>
s_usdc == <<"U", "S", "D", "C">>
s_abc == <<"a", "b", "c">>
s_vault == <<"V", "a", "u", "l", "t", " ">>
s_amount == <<"1", "2", "3", "4", ".", "5">>
s_native == <<"1", ".", "5">>
LongName == Rep(19, 0)
SomeDict == Dict(<< <<s_abc, Num(1)>> >>)

\* APY (1/10000 units) of the option at position i: the third is not the best
ApyAt(i) == CASE i = 1 -> 800 [] i = 2 -> 1523 [] i = 3 -> 450 [] OTHER -> 100 + i

\* a well-formed DepositOption at position i of its list
GoodOption(i) ==
    Dict(<< <<k_name, Str(s_vault \o IntToStr(i))>>,
            <<k_address, Str(<<"0", "x", "V">> \o IntToStr(i))>>,
            <<k_network, Named(s_base)>>,
            <<k_protocol, Named(s_aave)>>,
            <<k_apy, Dict(<< <<k_total, Num(ApyAt(i))>> >>)>> >>)

\* the option at position i with one field missing, null or of another type
FaultyOptions(i) ==
    LET o == GoodOption(i) IN
    {Without(o, k) : k \in {k_name, k_address, k_network, k_protocol, k_apy}}
    \cup {With(o, k, None) : k \in {k_name, k_address, k_network, k_protocol, k_apy}}
    \cup {With(o, k_network, Str(s_base)), With(o, k_network, EmptyDict),
          With(o, k_network, Dict(<< <<k_name, None>> >>)),
          With(o, k_name, Str(LongName)),
          With(o, k_apy, Dict(<< <<k_total, None>> >>)),
          With(o, k_apy, Dict(<< <<k_total, Num(0)>> >>)),
          With(o, k_apy, Dict(<< <<k_total, Str(s_abc)>> >>)),
          None, Str(s_abc)}

GoodOptions(n) == [i \in 1..n |-> GoodOption(i)]

\* option lists of length n with at most one malformed option
OptionListsOf(n) ==
    {GoodOptions(n)}
    \cup UNION {{[GoodOptions(n) EXCEPT ![i] = f] : f \in FaultyOptions(i)} : i \in 1..n}

OptionLists == UNION {OptionListsOf(n) : n \in 0..MaxOptions}

GoodAsset ==
    Dict(<< <<k_symbol, Str(s_usdc)>>,
            <<k_address, Str(<<"0", "x", "A">>)>>,
            <<k_balanceNative, Str(s_native)>>,
            <<k_balanceUsd, Str(s_amount)>>,
            <<k_network, Named(s_base)>> >>)

\* idle-balance records: well formed, or one field missing / null / mistyped
AssetVals ==
    {GoodAsset}
    \cup {Without(GoodAsset, k) : k \in {k_symbol, k_address, k_balanceNative, k_balanceUsd, k_network}}
    \cup {With(GoodAsset, k, None) : k \in {k_symbol, k_address, k_balanceNative, k_balanceUsd, k_network}}
    \cup {With(GoodAsset, k_balanceUsd, Str(s_abc)), With(GoodAsset, k_balanceUsd, Num(0)),
          With(GoodAsset, k_balanceNative, Str(s_abc)), With(GoodAsset, k_network, Str(s_base)),
          None, Str(s_abc)}

\* the asset field of a balance entry
EntryAssetVals ==
    {GoodAsset, EmptyDict, None, Str(s_abc),
     Without(GoodAsset, k_address), With(GoodAsset, k_address, None),
     With(GoodAsset, k_balanceUsd, Str(s_abc)), With(GoodAsset, k_balanceUsd, None)}

\* what a key that should hold a list holds instead
NotAList == {None, Str(s_abc), Num(5), SomeDict, EmptyDict, Str(<<>>), Num(0)}

Entry(asset, options) == Dict(<< <<k_asset, asset>>, <<k_depositOptions, options>> >>)

\* UserBalanceEntry records, with at most one malformed part each
Entries ==
    {Entry(GoodAsset, List(l)) : l \in OptionLists}
    \cup {Entry(a, List(GoodOptions(n))) : a \in EntryAssetVals, n \in 0..MaxOptions}
    \cup {Entry(GoodAsset, d) : d \in NotAList}
    \cup {Dict(<< <<k_asset, GoodAsset>> >>)}
    \cup {Dict(<< <<k_depositOptions, List(GoodOptions(n))>> >>) : n \in 0..MaxOptions}
    \cup {None, Str(s_abc)}

\* the entries that accompany an arbitrary one in a longer list
PlainEntries == {Entry(GoodAsset, List(GoodOptions(n))) : n \in {0, 1}}

\* lists of n entries, at most one of them not plain
EntryListsOf(n) ==
    IF n = 0 THEN {<<>>}
    ELSE {[i \in 1..n |-> IF i = k THEN e ELSE p[i]] :
              k \in 1..n, e \in Entries, p \in [1..n -> PlainEntries]}

EntryLists == UNION {EntryListsOf(n) : n \in 0..MaxEntries}

\* what get_deposit_options may return
DepositPayloads ==
    {Dict(<< <<k_userBalances, List(l)>> >>) : l \in EntryLists}
    \cup {Dict(<< <<k_userBalances, x>> >>) : x \in NotAList}
    \cup {None, EmptyDict, SomeDict, List(<<Str(s_abc)>>), Str(s_abc)}

ListsUpTo(S, n) == UNION {[1..k -> S] : k \in 0..n}

\* what get_idle_assets may return
BalancePayloads ==
    {Dict(<< <<k_dataKey, List(l)>> >>) : l \in ListsUpTo(AssetVals, MaxEntries)}
    \cup {Dict(<< <<k_dataKey, x>> >>) : x \in NotAList}
    \cup {None, EmptyDict, SomeDict, List(<<Str(s_abc)>>), Str(s_abc)}

GoodPosition ==
    Dict(<< <<k_name, Str(s_vault)>>,
            <<k_network, Named(s_mainnet)>>,
            <<k_protocol, Named(s_aave)>>,
            <<k_asset, GoodAsset>>,
            <<k_apy, Dict(<< <<k_total, Num(1523)>> >>)>> >>)

PositionVals ==
    {GoodPosition}
    \cup {Without(GoodPosition, k) : k \in {k_name, k_network, k_protocol, k_asset, k_apy}}
    \cup {With(GoodPosition, k, None) : k \in {k_name, k_network, k_protocol, k_asset, k_apy}}
    \cup {With(GoodPosition, k_name, Str(LongName)), With(GoodPosition, k_network, Str(s_base)),
          With(GoodPosition, k_asset, With(GoodAsset, k_balanceUsd, Str(s_abc))),
          With(GoodPosition, k_apy, Dict(<< <<k_total, Num(0)>> >>)),
          With(GoodPosition, k_apy, Dict(<< <<k_total, Str(s_abc)>> >>)),
          None, Str(s_abc)}

\* what get_positions may return
PositionPayloads ==
    {Dict(<< <<k_dataKey, List(l)>> >>) : l \in ListsUpTo(PositionVals, MaxEntries)}
    \cup {Dict(<< <<k_dataKey, x>> >>) : x \in NotAList}
    \cup {None, EmptyDict, SomeDict, List(<<Str(s_abc)>>), Str(s_abc)}

s_approve == <<"A", "p", "p", "r", "o", "v", "e">>
k_value == <<"v", "a", "l", "u", "e">>
k_chainId == <<"c", "h", "a", "i", "n", "I", "d">>
TxFields == Dict(<< <<k_to, Str(<<"0", "x", "a", "b", "c">>)>>, <<k_data, Str(Rep(26, 0))>> >>)

\* TransactionAction records: well formed, partial, malformed, not a mapping
ActionVals ==
    {Dict(<< <<k_name, Str(s_approve)>>, <<k_tx, TxFields>> >>),
     Named(s_approve),
     EmptyDict,
     Named(Rep(61, 0)),
     Dict(<< <<k_name, None>>, <<k_tx, TxFields>> >>),
     Dict(<< <<k_name, Str(s_approve)>>, <<k_tx, None>> >>),
     Str(s_abc), None}

\* the top-level properties of a transaction blob
PropertyLists ==
    {<<>>,
     << <<k_to, Str(<<"0", "x", "a", "b", "c">>)>> >>,
     << <<k_to, Str(Rep(51, 0))>>, <<k_data, Str(Rep(26, 0))>>,
        <<k_value, None>>, <<k_name, Str(<<>>)>>, <<k_chainId, Num(1)>> >>}

\* what get_actions may return
TransactionPayloads ==
    {Dict(p) : p \in PropertyLists}
    \cup {Dict(p \o << <<k_actions, x>> >>) : p \in PropertyLists, x \in {None, Str(s_abc), SomeDict}}
    \cup {Dict(p \o << <<k_actions, List(l)>> >>) : p \in PropertyLists, l \in ListsUpTo(ActionVals, MaxActions)}
    \cup {Dict(<< <<k_actions, List(l)>>, <<k_to, Str(s_abc)>> >>) : l \in ListsUpTo(ActionVals, MaxActions)}
    \cup {None, List(<<Str(s_abc)>>), Str(s_abc)}

\* ------------------------------------------------------------ the driver
\* USER_ADDRESS, line 21
USER_ADDRESS ==
    Str(<<"0", "x", "d", "B", "7", "9", "e", "7", "E", "9", "e", "1", "4", "1", "2", "4", "5", "7",
          "5", "2", "8", "e", "4", "0", "d", "b", "9", "f", "C", "D", "B", "e", "6", "9", "f", "5",
          "5", "8", "7", "7", "7", "d">>)
s_deposit == <<"d", "e", "p", "o", "s", "i", "t">>
\* amount = '1000000', line 302
Amount == Str(<<"1", "0", "0", "0", "0", "0", "0">>)
\* deposit_options[2], line 284
OptionIndex == 2
\* len(deposit_options) >= 3, line 283
MinOptions == 3

\* the client call raised
Failure == [t |-> "error", v |-> 0]

\* get_user_balances, lines 185-194: the payload, or None when the fetch or
\* the formatting raised
get_user_balances(outcome) ==
    IF outcome = Failure \/ format_user_balances(outcome).kind = "raise" THEN None ELSE outcome

\* the formatting is not covered by the try: the payload is handed on
get_best_deposit_options_unguarded(outcome) ==
    IF outcome = Failure THEN None ELSE outcome

\* a fetch failure hands on an empty entry with three placeholder options
get_best_deposit_options_fallback(outcome) ==
    IF outcome = Failure
    THEN Dict(<< <<k_userBalances, List(<<Entry(GoodAsset, List(GoodOptions(3)))>>)>> >>)
    ELSE IF format_deposit_options(outcome).kind = "raise" THEN None ELSE outcome

\* get_best_deposit_options, lines 197-210
get_best_deposit_options(outcome) ==
    IF outcome = Failure \/ format_deposit_options(outcome).kind = "raise" THEN None ELSE outcome

\* get_user_positions, lines 244-253
get_user_positions(outcome) ==
    IF outcome = Failure \/ format_positions(outcome).kind = "raise" THEN None ELSE outcome

\* the structured failure record of lines 237-241
FailureRecord ==
    Dict(<< <<<<"s", "u", "c", "c", "e", "s", "s">>, Num(0)>>,
            <<<<"m", "e", "s", "s", "a", "g", "e">>, Str(<<"f", "a", "i", "l", "e", "d">>)>>,
            <<<<"e", "r", "r", "o", "r">>, Str(<<"e", "r", "r">>)>> >>)

\* generate_deposit_transaction_with_asset, lines 213-241
generate_deposit_transaction_with_asset(outcome) ==
    IF outcome = Failure \/ format_transaction_blob(outcome).kind = "raise"
    THEN FailureRecord ELSE outcome

\* what a step printed last: a table, a message or a caught error
PrintedBy(outcome, formatted) ==
    IF outcome = Failure \/ formatted.kind = "raise" THEN "error" ELSE formatted.kind

NoRequest ==
    [made |-> FALSE, action |-> None, user_address |-> None, network |-> None,
     vault_address |-> None, amount |-> None, asset_address |-> None, simulate |-> FALSE]

\* the keyword arguments of client.get_actions, lines 223-231
Request(vault_address, amount, user_address, network, asset_address) ==
    [made |-> TRUE, action |-> Str(s_deposit), user_address |-> user_address,
     network |-> network, vault_address |-> vault_address, amount |-> amount,
     asset_address |-> asset_address, simulate |-> FALSE]

\* the first option is taken instead of the third
first_deposit_option_first(deposit_options) == Iter(deposit_options)[1]

\* first_deposit_option = deposit_options[2], line 284
first_deposit_option(deposit_options) == Iter(deposit_options)[OptionIndex + 1]

\* the network string of lines 293-299
network_of(option) ==
    LET network_data == Get(option, k_network, None) IN
    IF ~Truthy(network_data) THEN Str(s_mainnet)
    ELSE IF network_data.t = "str" THEN network_data
    ELSE IF network_data.t = "dict" THEN Get(network_data, k_name, Str(s_mainnet))
    ELSE Str(s_mainnet)

Gate(kind, chosen, request) == [kind |-> kind, chosen |-> chosen, request |-> request]
Crash == Gate("crash", None, NoRequest)

\* lines 278-319 up to the call of generate_deposit_transaction_with_asset:
\* an uncaught exception ("crash"), one of the three fixed messages, or the
\* request to issue
DepositGate(top_options) ==
    IF Truthy(top_options) /\ top_options.t # "dict" THEN Crash
    ELSE LET user_balances == IF Truthy(top_options)
                              THEN Get(top_options, k_userBalances, List(<<>>))
                              ELSE List(<<>>) IN
    IF ~Truthy(user_balances) THEN Gate("no_options", None, NoRequest)
    ELSE IF ~HasLen(user_balances) \/ user_balances.t = "dict" THEN Crash
    ELSE LET first_asset == Iter(user_balances)[1] IN
    IF first_asset.t # "dict" THEN Crash
    ELSE LET deposit_options == DepositOptionsOf(first_asset) IN
    IF ~HasLen(deposit_options) THEN Crash
    ELSE IF Len(deposit_options.v) < MinOptions THEN Gate("not_enough", None, NoRequest)
    ELSE IF deposit_options.t = "dict" THEN Crash
    ELSE LET option == first_deposit_option(deposit_options) IN
    IF option.t # "dict" \/ SubRaises(first_asset, k_asset) THEN Crash
    ELSE LET vault_address == Get(option, k_address, None)
             asset_address == SubGetNone(first_asset, k_asset, k_address) IN
    IF Truthy(vault_address) /\ Truthy(asset_address)
    THEN Gate("request", option,
              Request(vault_address, Amount, USER_ADDRESS, network_of(option), asset_address))
    ELSE Gate("no_address", option, NoRequest)

\* the outcomes of the get_deposit_options call
DepositOutcomes == {Failure} \cup DepositPayloads

\* the payloads the balance, transaction and position fetches return in a run
RunBalancePayloads ==
    {None, EmptyDict, Str(s_abc), Dict(<< <<k_dataKey, List(<<>>)>> >>),
     Dict(<< <<k_dataKey, List(<<GoodAsset>>)>> >>),
     Dict(<< <<k_dataKey, List(<<With(GoodAsset, k_network, None)>>)>> >>)}
RunPositionPayloads ==
    {None, EmptyDict, Str(s_abc), Dict(<< <<k_dataKey, List(<<>>)>> >>),
     Dict(<< <<k_dataKey, List(<<GoodPosition>>)>> >>),
     Dict(<< <<k_dataKey, List(<<With(GoodPosition, k_name, None)>>)>> >>)}
RunTransactionPayloads ==
    {None, Str(s_abc), Dict(<< <<k_to, Str(s_abc)>> >>),
     Dict(<< <<k_actions, List(<<Named(s_approve)>>)>> >>),
     Dict(<< <<k_actions, List(<<Dict(<< <<k_name, None>> >>)>>)>> >>)}

VARIABLES
    tFn, tKey, tVal, tMax, tOut, tOut2, tPass,   \* truncation: call, result, second pass
    fFn, fIn, fOut,                              \* formatter: call, payload, result
    pc,            \* position of run_example_implementation
    calls,         \* the client calls issued so far, in order
    depResp,       \* what get_deposit_options returned (or Failure)
    top_options,   \* the result of get_best_deposit_options
    chosen,        \* first_deposit_option
    request,       \* the arguments of the get_actions call
    printed        \* what the last step printed

tvars == <<tFn, tKey, tVal, tMax, tOut, tOut2, tPass>>
fvars == <<fFn, fIn, fOut>>
dvars == <<pc, calls, depResp, top_options, chosen, request, printed>>
vars == <<tFn, tKey, tVal, tMax, tOut, tOut2, tPass, fFn, fIn, fOut,
          pc, calls, depResp, top_options, chosen, request, printed>>

InitDriverVars ==
    /\ pc = "start" /\ calls = <<>> /\ depResp = None /\ top_options = None
    /\ chosen = None /\ request = NoRequest /\ printed = "banner"

InitTruncVars ==
    /\ tFn = "none" /\ tKey = <<>> /\ tVal = <<>> /\ tMax = 0
    /\ tOut = <<>> /\ tOut2 = <<>> /\ tPass = 0

InitFmtVars == fFn = "none" /\ fIn = None /\ fOut = Msg("")

\* ------------------------------------------------ formatter specification
InitFmt == InitTruncVars /\ InitFmtVars /\ InitDriverVars

CallFormatUserBalances ==
    /\ fFn = "none"
    /\ \E p \in BalancePayloads :
        fFn' = "format_user_balances" /\ fIn' = p /\ fOut' = format_user_balances(p)
    /\ UNCHANGED <<tvars, dvars>>

CallFormatPositions ==
    /\ fFn = "none"
    /\ \E p \in PositionPayloads :
        fFn' = "format_positions" /\ fIn' = p /\ fOut' = format_positions(p)
    /\ UNCHANGED <<tvars, dvars>>

CallFormatDepositOptions ==
    /\ fFn = "none"
    /\ \E p \in DepositPayloads :
        fFn' = "format_deposit_options" /\ fIn' = p /\ fOut' = format_deposit_options(p)
    /\ UNCHANGED <<tvars, dvars>>

CallFormatTransactionBlob ==
    /\ fFn = "none"
    /\ \E p \in TransactionPayloads :
        fFn' = "format_transaction_blob" /\ fIn' = p /\ fOut' = format_transaction_blob(p)
    /\ UNCHANGED <<tvars, dvars>>

NextFmt ==
    \/ CallFormatUserBalances
    \/ CallFormatPositions
    \/ CallFormatDepositOptions
    \/ CallFormatTransactionBlob

SpecFmt == InitFmt /\ [][NextFmt]_vars

\* ------------------------------------------------ truncation specification
TruncKeys == {k_data, k_name, k_to}
TruncStrings == {Rep(i, j) : i \in 0..MaxStrLen, j \in 0..MaxDots}
NameLimits == {18, 16}

InitTrunc == InitTruncVars /\ InitFmtVars /\ InitDriverVars

\* first pass of truncate_value over a value
TruncateValue ==
    /\ tPass = 0
    /\ \E key \in TruncKeys, value \in TruncStrings, m \in 0..MaxLenBound :
        /\ Len(value) <= MaxStrLen
        /\ tFn' = "truncate_value" /\ tKey' = key /\ tVal' = value /\ tMax' = m
        /\ tOut' = truncate_value(key, value, m)
    /\ tOut2' = <<>> /\ tPass' = 1
    /\ UNCHANGED <<fvars, dvars>>

\* first pass of the vault name shortening (limit 18 or 16)
ShortenName ==
    /\ tPass = 0
    /\ \E value \in TruncStrings, m \in NameLimits :
        /\ Len(value) <= MaxStrLen
        /\ tFn' = "vault_name_short" /\ tKey' = k_name /\ tVal' = value /\ tMax' = m
        /\ tOut' = vault_name_short(value, m)
    /\ tOut2' = <<>> /\ tPass' = 1
    /\ UNCHANGED <<fvars, dvars>>

\* formatting the already formatted value again
SecondPass ==
    /\ tPass = 1
    /\ tOut2' = IF tFn = "truncate_value" THEN truncate_value(tKey, tOut, tMax)
                ELSE vault_name_short(tOut, tMax)
    /\ tPass' = 2
    /\ UNCHANGED <<tFn, tKey, tVal, tMax, tOut>>
    /\ UNCHANGED <<fvars, dvars>>

NextTrunc == TruncateValue \/ ShortenName \/ SecondPass

SpecTrunc == InitTrunc /\ [][NextTrunc]_vars

\* the limit that applied to the first pass
AppliedLimit ==
    IF tFn = "truncate_value" /\ tKey = k_data /\ Len(tVal) > 20 THEN 20 ELSE tMax

LengthBounded ==
    /\ Len(tOut) <= AppliedLimit + Len(Ellipsis)
    /\ (tOut # tVal => tOut = Slice(tVal, AppliedLimit) \o Ellipsis)

Init == InitTruncVars /\ InitFmtVars /\ InitDriverVars

\* lines 258-267: the banner, the credential check, the client
Start ==
    /\ pc = "start"
    /\ \E api_key_set \in BOOLEAN :
        /\ pc' = IF api_key_set THEN "balances" ELSE "aborted"
        /\ printed' = IF api_key_set THEN "banner" ELSE "no_api_key"
    /\ UNCHANGED <<calls, depResp, top_options, chosen, request, tvars, fvars>>

\* lines 270-271: get_user_balances(client)
StepBalances ==
    /\ pc = "balances"
    /\ \E outcome \in {Failure} \cup RunBalancePayloads :
        printed' = PrintedBy(outcome, format_user_balances(outcome))
    /\ calls' = Append(calls, "get_idle_assets")
    /\ pc' = "deposit_options"
    /\ UNCHANGED <<depResp, top_options, chosen, request, tvars, fvars>>

\* lines 274-275: top_options = get_best_deposit_options(client)
StepDepositOptions ==
    /\ pc = "deposit_options"
    /\ depResp' \in DepositOutcomes
    /\ top_options' = get_best_deposit_options(depResp')
    /\ printed' = PrintedBy(depResp', format_deposit_options(depResp'))
    /\ calls' = Append(calls, "get_deposit_options")
    /\ pc' = "generate"
    /\ UNCHANGED <<chosen, request, tvars, fvars>>

\* lines 278-319: the gate and, when it passes, the get_actions call
StepGenerate ==
    /\ pc = "generate"
    /\ LET gate == DepositGate(top_options) IN
       /\ chosen' = gate.chosen
       /\ request' = gate.request
       /\ pc' = IF gate.kind = "crash" THEN "crashed" ELSE "positions"
       /\ \E outcome \in (IF gate.kind = "request"
                          THEN {Failure} \cup RunTransactionPayloads ELSE {Failure}) :
            /\ calls' = IF gate.kind = "request" THEN Append(calls, "get_actions") ELSE calls
            /\ printed' = IF gate.kind # "request" THEN gate.kind
                          ELSE PrintedBy(outcome, format_transaction_blob(outcome))
    /\ UNCHANGED <<depResp, top_options, tvars, fvars>>

\* lines 322-325: get_user_positions(client) and the completion message
StepPositions ==
    /\ pc = "positions"
    /\ \E outcome \in {Failure} \cup RunPositionPayloads :
        printed' = PrintedBy(outcome, format_positions(outcome))
    /\ calls' = Append(calls, "get_positions")
    /\ pc' = "done"
    /\ UNCHANGED <<depResp, top_options, chosen, request, tvars, fvars>>

Next == Start \/ StepBalances \/ StepDepositOptions \/ StepGenerate \/ StepPositions

Spec == Init /\ [][Next]_vars

\* the interpreter runs the function to its end
SpecLive == Spec /\ WF_vars(Next)

\* ------------------------------------------------------ driver properties
\* C5: with the credential present the run never aborts: whatever fails or
\* is returned, get_positions is called and the completion message reached.
C5_RunCompletes ==
    (pc = "balances") ~>
        (pc = "done" /\ Len(calls) > 0 /\ calls[Len(calls)] = "get_positions")

\* a run completed although the deposit-options fetch failed
C5_Witness == pc = "done" /\ depResp = Failure /\ printed = "error"

\* the first balance entry of the fetched payload has at least 3 options
FirstEntryHasThree(payload) ==
    /\ payload.t = "dict" /\ Get(payload, k_userBalances, None).t = "list"
    /\ Len(Get(payload, k_userBalances, None).v) > 0
    /\ Get(payload, k_userBalances, None).v[1].t = "dict"
    /\ DepositOptionsOf(Get(payload, k_userBalances, None).v[1]).t = "list"
    /\ Len(DepositOptionsOf(Get(payload, k_userBalances, None).v[1]).v) >= 3

FirstEntry(payload) == Get(payload, k_userBalances, None).v[1]
\* the option at index 2 of the first entry
ThirdOption(payload) == DepositOptionsOf(FirstEntry(payload)).v[3]

ExpectedNetwork(option) ==
    LET n == Get(option, k_network, None) IN
    IF n.t = "str" /\ Len(n.v) > 0 THEN n
    ELSE IF n.t = "dict" /\ HasKey(n, k_name) THEN Get(n, k_name, None)
    ELSE Str(s_mainnet)

\* the payload is well formed, and the network of its third option is a
\* string, an object or absent
WellFormedButThirdNetwork(payload) ==
    /\ FirstEntryHasThree(payload)
    /\ Get(FirstEntry(payload), k_asset, None) = GoodAsset
    /\ \A i \in 1..Len(DepositOptionsOf(FirstEntry(payload)).v) :
          LET option == DepositOptionsOf(FirstEntry(payload)).v[i] IN
          IF i = 3
          THEN /\ option.t = "dict"
               /\ Without(option, k_network) = Without(GoodOption(3), k_network)
               /\ Get(option, k_network, EmptyDict).t \in {"str", "dict"}
          ELSE option = GoodOption(i)

\* C7: whenever the first entry has at least 3 options and the vault and
\* asset addresses resolve, a transaction is requested, with the third
\* option's network (a string itself, an object's name, else 'mainnet').
C7_NetworkArgument ==
    (pc \in {"positions", "done"} /\ WellFormedButThirdNetwork(depResp))
        => (request.made /\ request.network = ExpectedNetwork(ThirdOption(depResp)))

AllowedCalls ==
    {<<>>, <<"get_idle_assets">>, <<"get_idle_assets", "get_deposit_options">>,
     <<"get_idle_assets", "get_deposit_options", "get_actions">>,
     <<"get_idle_assets", "get_deposit_options", "get_positions">>,
     <<"get_idle_assets", "get_deposit_options", "get_actions", "get_positions">>}

\* C8: the client calls occur in the order get_idle_assets,
\* get_deposit_options, get_actions, get_positions, each at most once, and
\* get_actions only after get_deposit_options returned successfully.
C8_CallOrder ==
    /\ calls \in AllowedCalls
    /\ (\E i \in 1..Len(calls) : calls[i] = "get_actions") =>
          depResp # Failure
    /\ pc = "done" => calls[Len(calls)] = "get_positions"

\* a complete run that issued all four calls
C8_Witness == pc = "done" /\ Len(calls) = 4

\* -------------------------------------------------- formatter properties
\* C1: for every payload (a mapping or null, with fields missing, null or of
\* the wrong type) every formatter returns a string, a table or a message,
\* and never raises.
C1_NeverRaises == (fIn = None \/ fIn.t = "dict") => fOut.kind # "raise"

\* the payload holds the entry list under key, and the list is empty
EmptyEntryList(payload, key) ==
    payload.t = "dict" /\ HasKey(payload, key) /\ Get(payload, key, None) = List(<<>>)

\* C2: data == [] gives the "none found" message of format_user_balances and
\* of format_positions, not the "unavailable" one.
C2_EmptyListNoneFound ==
    /\ (fFn = "format_user_balances" /\ EmptyEntryList(fIn, k_dataKey))
          => fOut = Msg("No idle assets found")
    /\ (fFn = "format_positions" /\ EmptyEntryList(fIn, k_dataKey))
          => fOut = Msg("No active positions found")

\* the payload is null, lacks key, or holds something that is not a list there
AbsentOrNotList(payload, key) ==
    \/ payload = None
    \/ payload.t = "dict" /\ ~HasKey(payload, key)
    \/ payload.t = "dict" /\ HasKey(payload, key) /\ Get(payload, key, None).t # "list"

\* C3: an absent or non-list entry sequence gives the fixed "unavailable"
\* message of each of the three list formatters.
C3_UnavailableMessage ==
    /\ (fFn = "format_user_balances" /\ AbsentOrNotList(fIn, k_dataKey))
          => fOut = Msg("No idle assets available")
    /\ (fFn = "format_positions" /\ AbsentOrNotList(fIn, k_dataKey))
          => fOut = Msg("No positions available")
    /\ (fFn = "format_deposit_options" /\ AbsentOrNotList(fIn, k_userBalances))
          => fOut = Msg("No deposit options available")

RECURSIVE SumOfOptionCounts(_, _)
\* sum over the balance entries i.. of len(depositOptions)
SumOfOptionCounts(entries, i) ==
    IF i > Len(entries) THEN 0
    ELSE Len(DepositOptionsOf(entries[i]).v) + SumOfOptionCounts(entries, i + 1)

\* C4: a table has as many rows as the input lists have entries (the sum of
\* the option counts for deposit options), and never zero rows.
C4_RowCount ==
    (fOut.kind = "table" /\ fFn # "format_transaction_blob") =>
        /\ Len(fOut.rows) > 0
        /\ fFn = "format_deposit_options" =>
              Len(fOut.rows) = SumOfOptionCounts(Get(fIn, k_userBalances, None).v, 1)
        /\ fFn \in {"format_user_balances", "format_positions"} =>
              Len(fOut.rows) = Len(Get(fIn, k_dataKey, None).v)

\* the number of top-level properties other than 'actions'
PropertyCount(transaction) == Len(SelectSeq(transaction.v, LAMBDA p : p[1] # k_actions))

\* rows is: blank, Total Actions n, blank, then 'Action 1'..'Action n' in
\* order, one blank row before every action but the first, none at the end
IsActionsSection(rows, n) ==
    /\ Len(rows) >= 3 + n
    /\ rows[1] = BlankRow
    /\ rows[2] = <<TotalActionsLabel, Str(IntToStr(n))>>
    /\ rows[3] = BlankRow
    /\ rows[4][1] = ActionLabel(1)
    /\ rows[Len(rows)] # BlankRow
    /\ \A i \in 1..n : Cardinality({r \in 4..Len(rows) : rows[r][1] = ActionLabel(i)}) = 1
    /\ \A i \in 1..(n - 1) :
          \E r \in 5..(Len(rows) - 1) :
              /\ rows[r] = BlankRow
              /\ rows[r + 1][1] = ActionLabel(i + 1)
              /\ \E q \in 4..(r - 1) : rows[q][1] = ActionLabel(i)
    /\ Cardinality({r \in 4..Len(rows) : rows[r] = BlankRow}) = n - 1

\* C9: with a list of n >= 1 actions there is no row for the key 'actions',
\* and the section after the properties has the shape of IsActionsSection.
C9_ActionsSection ==
    (/\ fFn = "format_transaction_blob" /\ fOut.kind = "table"
     /\ HasActionsList(fIn) /\ Len(Get(fIn, k_actions, None).v) >= 1) =>
        /\ \A r \in 1..Len(fOut.rows) : fOut.rows[r][1] # Str(k_actions)
        /\ IsActionsSection(SubSeq(fOut.rows, PropertyCount(fIn) + 1, Len(fOut.rows)),
                            Len(Get(fIn, k_actions, None).v))

====
